---- MODULE Spec2Model ----
(***************************************************************************)
(* Daily planner (src/app/page.tsx): the task store held in React state,   *)
(* its localStorage slot, the 15 s reminder tick, the alert list with its  *)
(* 45 s removal timers, and the user's handlers.                           *)
(*                                                                         *)
(* Time is in milliseconds since local midnight of the first day; the      *)
(* clock moves in steps of one tick interval.  An ISO-8601 string written  *)
(* by toISOString() and read back by new Date(...).getTime() is the same   *)
(* millisecond instant, so a stored instant is modelled by that integer.   *)
(* Text (title, notes, message) is a sequence of one-character strings.    *)
(* A nullable timestamp is <<>> (null) or <<t>>.                           *)
(* React applies state updaters one after another in the order they were   *)
(* queued and runs the passive effects of a commit before the next event,  *)
(* so a handler together with the commit it causes is one step.            *)
(***************************************************************************)
EXTENDS Naturals, Integers, Sequences, FiniteSets, TLC

VARIABLES
  now,            \* Date.now() of the host
  mounted,        \* the Home component is mounted
  mounts,         \* how many times it has been mounted
  tasks,          \* useState<Task[]>
  activeAlerts,   \* useState<Alert[]>
  timeouts,       \* pending window.setTimeout removals of pushAlert: {[id, due]}
  tickDue,        \* the instant the reminder setInterval fires next, 0: none
  refreshDue,     \* the instant the display setInterval fires next, 0: none
  storage,        \* localStorage slot STORAGE_KEY
  hasHydratedRef, \* hasHydratedRef.current
  nextId,         \* source of createId() values
  ops,            \* number of user operations so far
  fires,          \* history: per task id, alarms since creation or last snooze
  snoozedAt,      \* history: per task id, the instant of its last snooze, or null
  last            \* history: what the last step did

vars == <<now, mounted, mounts, tasks, activeAlerts, timeouts, tickDue,
          refreshDue, storage, hasHydratedRef, nextId, ops, fires, snoozedAt, last>>

----------------------------------------------------------------------------
(* Program constants *)

ALERT_DURATION_MS == 45000

TICK_INTERVAL_MS == 15000

SNOOZE_MINUTES == 5

MsPerMinute == 60 * 1000

DayMs == 24 * 60 * MsPerMinute

(* Bounds of the model *)

\* the clock stops after MaxTicks tick intervals
MaxTicks == 23

\* the user performs at most MaxOps operations,
MaxOps == 2

\* all of them within the first UserTicks tick intervals
UserTicks == 2

MaxMounts == 2

\* the store holds at most MaxTasks tasks
MaxTasks == 5

\* the driver of triggerNotification calls it at most MaxPushes times
MaxPushes == 3

\* the clock of the "Stretch" scenario stops after ScenarioTicks tick intervals
ScenarioTicks == 48

\* The user's window ends at 07:20:00 local time, the instant of a template
\* blueprint, so the run starts UserTicks tick intervals before that.
StartOfRun == (7 * 60 + 20) * MsPerMinute - UserTicks * TICK_INTERVAL_MS

EndOfRun == StartOfRun + MaxTicks * TICK_INTERVAL_MS

LastUserInstant == StartOfRun + UserTicks * TICK_INTERVAL_MS

Null == <<>>

At(t) == <<t>>

----------------------------------------------------------------------------
(* Text *)

Space == " "

\* U+2022, the bullet of the alert message
Bullet == "BULLET"

Stretch == <<"S", "t", "r", "e", "t", "c", "h">>

RECURSIVE TrimStart(_)
TrimStart(s) ==
  IF s # <<>> /\ Head(s) = Space THEN TrimStart(Tail(s)) ELSE s

RECURSIVE TrimEnd(_)
TrimEnd(s) ==
  IF s # <<>> /\ s[Len(s)] = Space THEN TrimEnd(SubSeq(s, 1, Len(s) - 1)) ELSE s

\* String.prototype.trim
Trim(s) == TrimEnd(TrimStart(s))

----------------------------------------------------------------------------
(* Templates: title, notes, hour, minute.  Titles and notes are shortened   *)
(* to one character each.                                                  *)

Blueprint(title, notes, hour, minute) ==
  [title |-> title, notes |-> notes, hour |-> hour, minute |-> minute]

templates ==
  << << Blueprint(<<"W">>, <<"w">>, 7, 0),
        Blueprint(<<"P">>, <<"p">>, 7, 20),
        Blueprint(<<"H">>, <<"h">>, 7, 45) >>,
     << Blueprint(<<"D">>, <<"d">>, 9, 0),
        Blueprint(<<"Y">>, <<"y">>, 10, 30),
        Blueprint(<<"R">>, <<"r">>, 12, 0) >>,
     << Blueprint(<<"T">>, <<"t">>, 20, 0),
        Blueprint(<<"U">>, <<"u">>, 21, 0),
        Blueprint(<<"G">>, <<"g">>, 21, 30) >> >>

----------------------------------------------------------------------------
(* The persistence slot: absent, or a text that is unparseable, parses to  *)
(* something that is no list, or parses to a list of objects.  An object   *)
(* is a function from the keys it has to their values.                     *)

Absent == [kind |-> "absent", items |-> <<>>]

Garbage == [kind |-> "garbage", items |-> <<>>]

NotAList == [kind |-> "notlist", items |-> <<>>]

JsonList(items) == [kind |-> "list", items |-> items]

Has(obj, key) == key \in DOMAIN obj

\* JavaScript truthiness of obj[key] for the three required fields
Truthy(obj, key) ==
  /\ Has(obj, key)
  /\ CASE key = "id" -> obj.id # 0
       [] key = "title" -> obj.title # <<>>
       [] key = "scheduledFor" -> TRUE
       [] OTHER -> TRUE

\* Mutant of WithDefaults: the alarm mark is not taken over from the record.
WithDefaults_ForgetsMark(obj) ==
  [id |-> obj.id,
   title |-> obj.title,
   notes |-> IF Has(obj, "notes") THEN obj.notes ELSE <<>>,
   scheduledFor |-> obj.scheduledFor,
   completed |-> obj.completed,
   notifiedAt |-> Null,
   createdAt |-> obj.createdAt]

\* Mutant of WithDefaults: the notes are always replaced by the default.
WithDefaults_NoNotes(obj) ==
  [id |-> obj.id,
   title |-> obj.title,
   notes |-> <<>>,
   scheduledFor |-> obj.scheduledFor,
   completed |-> obj.completed,
   notifiedAt |-> IF Has(obj, "notifiedAt") THEN obj.notifiedAt ELSE Null,
   createdAt |-> obj.createdAt]

\* {...task, notes: task.notes ?? '', notifiedAt: task.notifiedAt ?? null}
WithDefaults(obj) ==
  [id |-> obj.id,
   title |-> obj.title,
   notes |-> IF Has(obj, "notes") THEN obj.notes ELSE <<>>,
   scheduledFor |-> obj.scheduledFor,
   completed |-> obj.completed,
   notifiedAt |-> IF Has(obj, "notifiedAt") THEN obj.notifiedAt ELSE Null,
   createdAt |-> obj.createdAt]

Keep(obj) == Truthy(obj, "id") /\ Truthy(obj, "scheduledFor") /\ Truthy(obj, "title")

RECURSIVE FilterMap(_)
FilterMap(items) ==
  IF items = <<>> THEN <<>>
  ELSE IF Keep(Head(items))
       THEN <<WithDefaults(Head(items))>> \o FilterMap(Tail(items))
       ELSE FilterMap(Tail(items))

readTasks(slot) ==
  IF slot.kind = "list" THEN FilterMap(slot.items) ELSE <<>>

\* JSON.stringify(nextTasks): every task has all seven keys
Stringify(ts) == JsonList(ts)

----------------------------------------------------------------------------
(* sortTasks: Array.prototype.sort is stable *)

Compare(a, b) ==
  IF a.completed # b.completed
  THEN (IF a.completed THEN 1 ELSE -1)
  ELSE a.scheduledFor - b.scheduledFor

RECURSIVE InsertSorted(_, _)
InsertSorted(sorted, x) ==
  IF sorted = <<>> THEN <<x>>
  ELSE IF Compare(sorted[Len(sorted)], x) <= 0 THEN Append(sorted, x)
  ELSE Append(InsertSorted(SubSeq(sorted, 1, Len(sorted) - 1), x), sorted[Len(sorted)])

RECURSIVE SortFrom(_, _)
SortFrom(done, rest) ==
  IF rest = <<>> THEN done ELSE SortFrom(InsertSorted(done, Head(rest)), Tail(rest))

\* Mutant of sortTasks: the list is returned in the order given.
sortTasks_Unsorted(ts) == ts

sortTasks(ts) == SortFrom(<<>>, ts)

----------------------------------------------------------------------------
(* Helpers on the store *)

Ids(ts) == {ts[i].id : i \in 1..Len(ts)}

TaskOf(ts, id) == CHOOSE t \in {ts[i] : i \in 1..Len(ts)} : t.id = id

Range(s) == {s[i] : i \in 1..Len(s)}

Step(op, id) ==
  [op |-> op, id |-> id, eligible |-> {}, fired |-> <<>>, native |-> {},
   tones |-> {}, pushed |-> <<>>, writes |-> 0, removes |-> 0,
   perm |-> "default", audio |-> FALSE, threw |-> "none"]

----------------------------------------------------------------------------
(* Persistence *)

\* Mutant of persistTasks: the tasks are written without their marks.
persistTasks_WithoutMarks(ts) ==
  Stringify([i \in 1..Len(ts) |-> [ts[i] EXCEPT !.notifiedAt = Null]])

\* Mutant of persistTasks: the list is written in canonical order instead of
\* the order the store holds.
persistTasks_Sorted(ts) == Stringify(sortTasks(ts))

\* persistTasks: window.localStorage.setItem(STORAGE_KEY, JSON.stringify(nextTasks))
persistTasks(ts) == Stringify(ts)

\* The effect on [tasks]: if (!hasHydratedRef.current) return; persistTasks(tasks)
PersistEffect(hydrated, ts, slot) ==
  IF ~hydrated THEN slot ELSE persistTasks(ts)

PersistWrites(hydrated) == IF hydrated THEN 1 ELSE 0

\* The effects of the first commit, in declaration order: the ref is set by the
\* first effect, and the persist effect of the same commit reads it.
MountEffects(ts, slot) ==
  LET ref0 == FALSE
      ref1 == TRUE
  IN  [ref |-> ref1,
       slot |-> PersistEffect(ref1, ts, slot),
       writes |-> PersistWrites(ref1)]

----------------------------------------------------------------------------
(* The reminder tick *)

\* Mutant of Eligible: only a task that came due since the previous tick counts.
Eligible_OnTimeOnly(task, t) ==
  /\ ~task.completed
  /\ task.notifiedAt = Null
  /\ task.scheduledFor <= t
  /\ task.scheduledFor > t - TICK_INTERVAL_MS

\* Mutant of Eligible: the completed flag is not looked at.
Eligible_IgnoresCompleted(task, t) ==
  /\ task.notifiedAt = Null
  /\ task.scheduledFor <= t

\* if (task.completed || task.notifiedAt) return task; ... if (scheduled <= now)
Eligible(task, t) ==
  /\ ~task.completed
  /\ task.notifiedAt = Null
  /\ task.scheduledFor <= t

RECURSIVE EligibleOf(_, _)
EligibleOf(ts, t) ==
  IF ts = <<>> THEN <<>>
  ELSE IF Eligible(Head(ts), t)
       THEN <<Head(ts)>> \o EligibleOf(Tail(ts), t)
       ELSE EligibleOf(Tail(ts), t)

\* Mutant of Notified: the task is returned without the mark.
Notified_Unmarked(task, t) == task

\* return { ...task, notifiedAt: new Date().toISOString() }
Notified(task, t) == [task EXCEPT !.notifiedAt = At(t)]

Marked(ts, t) ==
  [i \in 1..Len(ts) |-> IF Eligible(ts[i], t) THEN Notified(ts[i], t) ELSE ts[i]]

\* Mutant of Message: the composed text is not trimmed.
Message_Untrimmed(task) ==
  task.title \o <<Space>>
    \o (IF task.notes # <<>> THEN <<Bullet, Space>> \o task.notes ELSE <<>>)

\* `${task.title} ${task.notes ? `(bullet) ${task.notes}` : ''}`.trim()
Message(task) ==
  Trim(task.title \o <<Space>>
       \o (IF task.notes # <<>> THEN <<Bullet, Space>> \o task.notes ELSE <<>>))

Permissions == {"unsupported", "granted", "denied", "default"}

NewAlert(task, aid, t) ==
  [id |-> aid, taskId |-> task.id, message |-> Message(task), triggeredAt |-> t]

\* Mutant of triggerNotification: it returns when the native notification
\* cannot be shown.
triggerNotification_NeedsPermission(task, aid, t, perm, audio) ==
  [native |-> perm = "granted",
   tone |-> audio /\ perm = "granted",
   alerts |-> IF perm = "granted" THEN <<NewAlert(task, aid, t)>> ELSE <<>>]

\* What triggerNotification does for one task: the native notification only if
\* supported and granted, the tone only if ensureAudioContext() gives a context
\* (playAlarm returns early otherwise), and always pushAlert.
triggerNotification(task, aid, t, perm, audio) ==
  [native |-> perm = "granted",
   tone |-> audio,
   alerts |-> <<NewAlert(task, aid, t)>>]

\* the alerts of one tick: one createId() per triggered task, in store order
RECURSIVE AlertsFor(_, _, _, _, _)
AlertsFor(el, firstId, t, perm, audio) ==
  IF el = <<>> THEN <<>>
  ELSE triggerNotification(Head(el), firstId, t, perm, audio).alerts
       \o AlertsFor(Tail(el), firstId + 1, t, perm, audio)

NativeFor(el, t, perm, audio) ==
  {x.id : x \in {y \in Range(el) : triggerNotification(y, 0, t, perm, audio).native}}

TonesFor(el, t, perm, audio) ==
  {x.id : x \in {y \in Range(el) : triggerNotification(y, 0, t, perm, audio).tone}}

\* Mutant of TimeoutsFor: the removal is scheduled with the tick interval.
TimeoutsFor_TickInterval(alerts, t) ==
  {[id |-> alerts[i].id, due |-> t + TICK_INTERVAL_MS] : i \in 1..Len(alerts)}

\* pushAlert: window.setTimeout(..., ALERT_DURATION_MS) for each alert
TimeoutsFor(alerts, t) ==
  {[id |-> alerts[i].id, due |-> t + ALERT_DURATION_MS] : i \in 1..Len(alerts)}

IdSeq(ts) == [i \in 1..Len(ts) |-> ts[i].id]

Bump(f, ids) == [i \in DOMAIN f |-> IF i \in ids THEN f[i] + 1 ELSE f[i]]

\* A setInterval whose next run is at due (0: cleared or never created) is due.
IntervalDue(due) == due # 0 /\ due <= now

\* The display-refresh ticker: setNow(Date.now()) every 15 s.  The value it
\* sets only feeds the "time remaining" labels and is not kept in the model.
Refresh ==
  /\ IntervalDue(refreshDue)
  /\ refreshDue' = refreshDue + TICK_INTERVAL_MS
  /\ last' = Step("refresh", 0)
  /\ UNCHANGED <<now, mounted, mounts, tasks, activeAlerts, timeouts, tickDue,
                 storage, hasHydratedRef, nextId, ops, fires, snoozedAt>>

\* The reminder interval.  Both intervals are created in the effects of the
\* same commit with the same period, the display one first, so at an instant
\* where both are due the display callback runs first.
Tick ==
  /\ IntervalDue(tickDue)
  /\ ~IntervalDue(refreshDue)
  /\ tickDue' = tickDue + TICK_INTERVAL_MS
  /\ LET el == EligibleOf(tasks, now)
     IN  IF el = <<>>
         THEN /\ last' = Step("tick", 0)
              /\ UNCHANGED <<tasks, activeAlerts, timeouts, storage, nextId, fires, snoozedAt>>
         ELSE \E perm \in Permissions, audio \in BOOLEAN :
                LET next == sortTasks(Marked(tasks, now))
                    pushed == AlertsFor(el, nextId, now, perm, audio)
                IN  /\ tasks' = next
                    /\ activeAlerts' = activeAlerts \o pushed
                    /\ timeouts' = timeouts \cup TimeoutsFor(pushed, now)
                    /\ nextId' = nextId + Len(el)
                    /\ storage' = PersistEffect(hasHydratedRef, next, storage)
                    /\ fires' = Bump(fires, Ids(el))
                    /\ snoozedAt' = snoozedAt
                    /\ last' = [Step("tick", 0) EXCEPT
                                  !.eligible = Ids(el),
                                  !.fired = IdSeq(el),
                                  !.native = NativeFor(el, now, perm, audio),
                                  !.tones = TonesFor(el, now, perm, audio),
                                  !.pushed = pushed,
                                  !.writes = PersistWrites(hasHydratedRef),
                                  !.perm = perm,
                                  !.audio = audio]
  /\ UNCHANGED <<now, mounted, mounts, hasHydratedRef, ops, refreshDue>>

\* Mutant of Without: the filter drops every alert of the same task.
Without_ByTaskId(alerts, aid) ==
  LET Keeps(a) == \A b \in Range(alerts) : b.id = aid => a.taskId # b.taskId
  IN  SelectSeq(alerts, Keeps)

\* window.setTimeout(() => setActiveAlerts(prev => prev.filter(item => item.id !== alert.id)))
Without(alerts, aid) ==
  LET Keeps(a) == a.id # aid
  IN  SelectSeq(alerts, Keeps)

AlertExpire(tm) ==
  /\ mounted
  /\ tm \in timeouts
  /\ tm.due <= now
  /\ activeAlerts' = Without(activeAlerts, tm.id)
  /\ timeouts' = timeouts \ {tm}
  /\ last' = Step("expire", tm.id)
  /\ UNCHANGED <<now, mounted, mounts, tasks, tickDue, storage, hasHydratedRef,
                 nextId, ops, fires, snoozedAt, refreshDue>>

\* Something can still happen before the clock stops: the user may act, an
\* alert awaits its removal, or a task may yet come due.
Pending ==
  \/ now <= LastUserInstant
  \/ timeouts # {}
  \/ \E i \in 1..Len(tasks) :
       /\ mounted
       /\ ~tasks[i].completed
       /\ tasks[i].notifiedAt = Null
       /\ tasks[i].scheduledFor <= EndOfRun

\* Time passes; a timer that is due runs before time passes on.  The clock is
\* followed only while something is pending: from then on a tick changes nothing.
Advance ==
  /\ mounts > 0
  /\ now < EndOfRun
  /\ Pending
  /\ ~IntervalDue(tickDue)
  /\ ~IntervalDue(refreshDue)
  /\ \A tm \in timeouts : tm.due > now
  /\ now' = now + TICK_INTERVAL_MS
  /\ last' = Step("advance", 0)
  /\ UNCHANGED <<mounted, mounts, tasks, activeAlerts, timeouts, tickDue, storage,
                 hasHydratedRef, nextId, ops, fires, snoozedAt, refreshDue>>

----------------------------------------------------------------------------
(* Mounting *)

\* the user acts on the mounted view, within the bounds of the model
UserMayAct ==
  /\ mounted
  /\ ops < MaxOps
  /\ now <= LastUserInstant

\* Mutant of Mount: the reminder effect creates no interval.
Mount_NoReminderInterval ==
  /\ ~mounted
  /\ mounts < MaxMounts
  /\ LET loaded == sortTasks(readTasks(storage))
         eff == MountEffects(loaded, storage)
     IN  /\ tasks' = loaded
         /\ hasHydratedRef' = eff.ref
         /\ storage' = eff.slot
         /\ last' = [Step("mount", 0) EXCEPT !.writes = eff.writes]
  /\ mounted' = TRUE
  /\ mounts' = mounts + 1
  /\ activeAlerts' = <<>>
  /\ timeouts' = {}
  /\ tickDue' = 0
  /\ refreshDue' = now + TICK_INTERVAL_MS
  /\ UNCHANGED <<now, nextId, ops, fires, snoozedAt>>

\* useState(() => sortTasks(readTasks())), then the effects of the first commit
Mount ==
  /\ ~mounted
  /\ mounts < MaxMounts
  /\ LET loaded == sortTasks(readTasks(storage))
         eff == MountEffects(loaded, storage)
     IN  /\ tasks' = loaded
         /\ hasHydratedRef' = eff.ref
         /\ storage' = eff.slot
         /\ last' = [Step("mount", 0) EXCEPT !.writes = eff.writes]
  /\ mounted' = TRUE
  /\ mounts' = mounts + 1
  /\ activeAlerts' = <<>>
  /\ timeouts' = {}
  /\ tickDue' = now + TICK_INTERVAL_MS
  /\ refreshDue' = now + TICK_INTERVAL_MS
  /\ UNCHANGED <<now, nextId, ops, fires, snoozedAt>>

\* Mutant of Unmount: the effects return no cleanup, the intervals stay.
Unmount_LeaksIntervals ==
  /\ UserMayAct
  /\ ops' = ops + 1
  /\ mounted' = FALSE
  /\ tasks' = <<>>
  /\ activeAlerts' = <<>>
  /\ timeouts' = {}
  /\ hasHydratedRef' = FALSE
  /\ last' = Step("unmount", 0)
  /\ UNCHANGED <<now, mounts, storage, nextId, fires, snoozedAt, tickDue, refreshDue>>

\* The view is torn down: the effect cleanups clear both intervals, the React
\* state is gone.  The removal timeouts of pushAlert are not cancelled, but
\* their updates reach no mounted component, so they are dropped here.
Unmount ==
  /\ UserMayAct
  /\ ops' = ops + 1
  /\ mounted' = FALSE
  /\ tasks' = <<>>
  /\ activeAlerts' = <<>>
  /\ timeouts' = {}
  /\ tickDue' = 0
  /\ refreshDue' = 0
  /\ hasHydratedRef' = FALSE
  /\ last' = Step("unmount", 0)
  /\ UNCHANGED <<now, mounts, storage, nextId, fires, snoozedAt>>

----------------------------------------------------------------------------
(* The user's handlers *)

\* What every handler's commit does after the store changed
Commit(op, id, next, slot, removes) ==
  /\ tasks' = next
  /\ storage' = PersistEffect(hasHydratedRef, next, slot)
  /\ last' = [Step(op, id) EXCEPT !.writes = PersistWrites(hasHydratedRef),
                                  !.removes = removes]

\* The value of the datetime-local field as new Date(formTime) reads it
EmptyTime == [kind |-> "empty", ms |-> 0]

InvalidTime == [kind |-> "invalid", ms |-> 0]

LocalTime(ms) == [kind |-> "local", ms |-> ms]

Submission(title, notes, time) == [title |-> title, notes |-> notes, time |-> time]

Submissions ==
  { Submission(Stretch, <<>>, LocalTime(StartOfRun + MsPerMinute)),
    Submission(<<Space, "A", Space>>, <<Space, "n">>, LocalTime(StartOfRun - MsPerMinute)),
    Submission(<<Space>>, <<>>, LocalTime(StartOfRun + MsPerMinute)),
    Submission(<<>>, <<>>, LocalTime(StartOfRun + MsPerMinute)),
    Submission(Stretch, <<>>, EmptyTime),
    Submission(Stretch, <<>>, InvalidTime) }

\* Mutant of Rejected: the title is tested without trimming it.
Rejected_Untrimmed(sub) ==
  \/ sub.title = <<>>
  \/ sub.time.kind = "empty"
  \/ sub.time.kind = "invalid"

\* !formTitle.trim() || !formTime, then Number.isNaN(scheduled.getTime())
Rejected(sub) ==
  \/ Trim(sub.title) = <<>>
  \/ sub.time.kind = "empty"
  \/ sub.time.kind = "invalid"

NewTask(sub, id, t) ==
  [id |-> id,
   title |-> Trim(sub.title),
   notes |-> Trim(sub.notes),
   scheduledFor |-> sub.time.ms,
   completed |-> FALSE,
   notifiedAt |-> Null,
   createdAt |-> t]

\* A rejected submission returns before any state is set; it is not counted
\* among the user's operations.
handleAddTask(sub) ==
  /\ UserMayAct
  /\ Rejected(sub) \/ Len(tasks) < MaxTasks
  /\ IF Rejected(sub)
     THEN /\ last' = Step("add", 0)
          /\ UNCHANGED <<tasks, storage, nextId, fires, snoozedAt, ops>>
     ELSE /\ Commit("add", nextId,
                    sortTasks(Append(tasks, NewTask(sub, nextId, now))), storage, 0)
          /\ nextId' = nextId + 1
          /\ fires' = (nextId :> 0) @@ fires
          /\ snoozedAt' = (nextId :> Null) @@ snoozedAt
          /\ ops' = ops + 1
  /\ UNCHANGED <<now, mounted, mounts, activeAlerts, timeouts, tickDue, hasHydratedRef,
                 refreshDue>>

\* Mutant of Toggled: toggling also clears the alarm mark.
Toggled_Rearms(ts, taskId) ==
  [i \in 1..Len(ts) |->
     IF ts[i].id = taskId
     THEN [ts[i] EXCEPT !.completed = ~ts[i].completed, !.notifiedAt = Null]
     ELSE ts[i]]

\* Mutant of Toggled: the task is marked completed instead of flipped.
Toggled_SetsDone(ts, taskId) ==
  [i \in 1..Len(ts) |->
     IF ts[i].id = taskId THEN [ts[i] EXCEPT !.completed = TRUE] ELSE ts[i]]

Toggled(ts, taskId) ==
  [i \in 1..Len(ts) |->
     IF ts[i].id = taskId THEN [ts[i] EXCEPT !.completed = ~ts[i].completed] ELSE ts[i]]

handleToggleComplete(taskId) ==
  /\ UserMayAct
  /\ taskId \in Ids(tasks)
  /\ ops' = ops + 1
  /\ Commit("toggle", taskId, Toggled(tasks, taskId), storage, 0)
  /\ UNCHANGED <<now, mounted, mounts, activeAlerts, timeouts, tickDue,
                 hasHydratedRef, nextId, fires, snoozedAt, refreshDue>>

\* Mutant of Deleted: the filter keeps the task it should drop.
Deleted_Inverted(ts, taskId) ==
  LET Keeps(x) == x.id = taskId
  IN  SelectSeq(ts, Keeps)

Deleted(ts, taskId) ==
  LET Keeps(x) == x.id # taskId
  IN  SelectSeq(ts, Keeps)

handleDeleteTask(taskId) ==
  /\ UserMayAct
  /\ taskId \in Ids(tasks)
  /\ ops' = ops + 1
  /\ Commit("delete", taskId, Deleted(tasks, taskId), storage, 0)
  /\ fires' = [i \in DOMAIN fires \ {taskId} |-> fires[i]]
  /\ snoozedAt' = [i \in DOMAIN snoozedAt \ {taskId} |-> snoozedAt[i]]
  /\ UNCHANGED <<now, mounted, mounts, activeAlerts, timeouts, tickDue,
                 hasHydratedRef, nextId, refreshDue>>

\* Mutant of Snoozed: the minutes are added as seconds.
Snoozed_Seconds(ts, taskId, minutes, t) ==
  sortTasks([i \in 1..Len(ts) |->
     IF ts[i].id # taskId THEN ts[i]
     ELSE [ts[i] EXCEPT !.scheduledFor = t + minutes * 1000,
                        !.notifiedAt = Null,
                        !.completed = FALSE]])

\* newDate.setMinutes(newDate.getMinutes() + minutes)
Snoozed(ts, taskId, minutes, t) ==
  sortTasks([i \in 1..Len(ts) |->
     IF ts[i].id # taskId THEN ts[i]
     ELSE [ts[i] EXCEPT !.scheduledFor = t + minutes * MsPerMinute,
                        !.notifiedAt = Null,
                        !.completed = FALSE]])

\* The snooze buttons exist for incomplete tasks only and pass no minutes.
handleSnoozeTask(taskId) ==
  /\ UserMayAct
  /\ taskId \in Ids(tasks)
  /\ ~TaskOf(tasks, taskId).completed
  /\ ops' = ops + 1
  /\ Commit("snooze", taskId, Snoozed(tasks, taskId, SNOOZE_MINUTES, now), storage, 0)
  /\ fires' = [fires EXCEPT ![taskId] = 0]
  /\ snoozedAt' = [snoozedAt EXCEPT ![taskId] = At(now)]
  /\ UNCHANGED <<now, mounted, mounts, activeAlerts, timeouts, tickDue,
                 hasHydratedRef, nextId, refreshDue>>

StartOfDay(t) == t - (t % DayMs)

\* Mutant of NextOccurrence: an instant equal to now still counts as today.
NextOccurrence_Strict(t, hour, minute) ==
  LET target == StartOfDay(t) + (hour * 60 + minute) * MsPerMinute
  IN  IF target < t THEN target + DayMs ELSE target

\* target.setHours(hour, minute, 0, 0); if (target <= now) target.setDate(+1)
NextOccurrence(t, hour, minute) ==
  LET target == StartOfDay(t) + (hour * 60 + minute) * MsPerMinute
  IN  IF target <= t THEN target + DayMs ELSE target

Additions(template, firstId, t) ==
  [i \in 1..Len(template) |->
     [id |-> firstId + i - 1,
      title |-> template[i].title,
      notes |-> template[i].notes,
      scheduledFor |-> NextOccurrence(t, template[i].hour, template[i].minute),
      completed |-> FALSE,
      notifiedAt |-> Null,
      createdAt |-> t]]

handleApplyTemplate(k) ==
  /\ UserMayAct
  /\ Len(tasks) + Len(templates[k]) <= MaxTasks
  /\ ops' = ops + 1
  /\ LET additions == Additions(templates[k], nextId, now)
     IN  /\ Commit("template", k, sortTasks(tasks \o additions), storage, 0)
         /\ nextId' = nextId + Len(additions)
         /\ fires' = [i \in Ids(additions) |-> 0] @@ fires
         /\ snoozedAt' = [i \in Ids(additions) |-> Null] @@ snoozedAt
  /\ UNCHANGED <<now, mounted, mounts, activeAlerts, timeouts, tickDue, hasHydratedRef,
                 refreshDue>>

\* Mutant of resetDay: the slot is removed but the store is not emptied.
resetDay_KeepsStore ==
  /\ UserMayAct
  /\ ops' = ops + 1
  /\ Commit("reset", 0, tasks, Absent, 1)
  /\ UNCHANGED <<now, mounted, mounts, activeAlerts, timeouts, tickDue,
                 hasHydratedRef, nextId, fires, snoozedAt, refreshDue>>

\* setTasks([]); window.localStorage.removeItem(STORAGE_KEY); then the commit
resetDay ==
  /\ UserMayAct
  /\ ops' = ops + 1
  /\ Commit("reset", 0, <<>>, Absent, 1)
  /\ fires' = <<>>
  /\ snoozedAt' = <<>>
  /\ UNCHANGED <<now, mounted, mounts, activeAlerts, timeouts, tickDue,
                 hasHydratedRef, nextId, refreshDue>>

----------------------------------------------------------------------------
(* The slot as the program finds it at its first start *)

StoredDone ==
  [id |-> 1, title |-> <<"A">>, notes |-> <<>>,
   scheduledFor |-> StartOfRun - 9 * MsPerMinute, completed |-> TRUE,
   notifiedAt |-> At(StartOfRun - 9 * MsPerMinute), createdAt |-> 0]

StoredBare ==
  [id |-> 2, title |-> <<"B">>,
   scheduledFor |-> StartOfRun + 2 * TICK_INTERVAL_MS, completed |-> FALSE,
   createdAt |-> 0]

StoredUntitled ==
  [id |-> 3, notes |-> <<"n">>,
   scheduledFor |-> StartOfRun, completed |-> FALSE, notifiedAt |-> Null,
   createdAt |-> 0]

InitialSlots ==
  {Absent, Garbage, NotAList, JsonList(<<StoredDone, StoredUntitled, StoredBare>>)}

\* createId() never returns an id the slot already holds
FirstFreshId == Len(<<StoredDone, StoredUntitled, StoredBare>>) + 1

InitialFires(slot) ==
  LET ts == readTasks(slot)
  IN  [i \in Ids(ts) |-> IF TaskOf(ts, i).notifiedAt # Null THEN 1 ELSE 0]

Init ==
  /\ now = StartOfRun
  /\ mounted = FALSE
  /\ mounts = 0
  /\ tasks = <<>>
  /\ activeAlerts = <<>>
  /\ timeouts = {}
  /\ tickDue = 0
  /\ refreshDue = 0
  /\ storage \in InitialSlots
  /\ hasHydratedRef = FALSE
  /\ nextId = FirstFreshId
  /\ ops = 0
  /\ fires = InitialFires(storage)
  /\ snoozedAt = [i \in Ids(readTasks(storage)) |-> Null]
  /\ last = Step("boot", 0)

Next ==
  \/ Mount
  \/ Unmount
  \/ Refresh
  \/ Tick
  \/ \E tm \in timeouts : AlertExpire(tm)
  \/ Advance
  \/ \E sub \in Submissions : handleAddTask(sub)
  \/ \E id \in Ids(tasks) : handleToggleComplete(id)
  \/ \E id \in Ids(tasks) : handleDeleteTask(id)
  \/ \E id \in Ids(tasks) : handleSnoozeTask(id)
  \/ \E k \in 1..Len(templates) : handleApplyTemplate(k)
  \/ resetDay

Spec == Init /\ [][Next]_vars

\* The reminder interval's callback runs: Tick is the only step that moves
\* tickDue on by one interval, and it can be taken exactly when TickRuns can.
TickRuns ==
  /\ IntervalDue(tickDue)
  /\ ~IntervalDue(refreshDue)
  /\ tickDue' = tickDue + TICK_INTERVAL_MS

\* The timers of the host run: a due interval callback or alert timeout is
\* eventually called, and time goes on while no timer is due.
Fairness ==
  /\ WF_vars(Refresh)
  /\ WF_tickDue(TickRuns)
  /\ WF_vars(\E tm \in timeouts : AlertExpire(tm))
  /\ WF_vars(Advance)

\* user actions in a run with fair timers
LiveOps == 1

\* Init, with the user's budget of actions cut down to LiveOps
InitLive ==
  /\ now = StartOfRun
  /\ mounted = FALSE
  /\ mounts = 0
  /\ tasks = <<>>
  /\ activeAlerts = <<>>
  /\ timeouts = {}
  /\ tickDue = 0
  /\ refreshDue = 0
  /\ storage \in InitialSlots
  /\ hasHydratedRef = FALSE
  /\ nextId = FirstFreshId
  /\ ops = MaxOps - LiveOps
  /\ fires = InitialFires(storage)
  /\ snoozedAt = [i \in Ids(readTasks(storage)) |-> Null]
  /\ last = Step("boot", 0)

SpecLive == InitLive /\ [][Next]_vars /\ Fairness

----------------------------------------------------------------------------
(* A host whose alert channels may throw.  triggerNotification catches       *)
(* nothing and runs inside the updater passed to setTasks: when              *)
(* new Notification(...) or the audio calls of playAlarm throw, the updater  *)
(* throws, React drops the update (the store keeps its previous value,       *)
(* nothing is persisted) and, with no error boundary in the component,       *)
(* tears the view down.                                                      *)

Channels == {"native", "audio"}

TickThrow ==
  /\ IntervalDue(tickDue)
  /\ ~IntervalDue(refreshDue)
  /\ EligibleOf(tasks, now) # <<>>
  /\ \E ch \in Channels :
       last' = [Step("tick", 0) EXCEPT
                  !.eligible = Ids(EligibleOf(tasks, now)),
                  !.perm = IF ch = "native" THEN "granted" ELSE "default",
                  !.audio = (ch = "audio"),
                  !.threw = ch]
  /\ mounted' = FALSE
  /\ activeAlerts' = <<>>
  /\ timeouts' = {}
  /\ tickDue' = 0
  /\ refreshDue' = 0
  /\ hasHydratedRef' = FALSE
  /\ UNCHANGED <<now, mounts, tasks, storage, nextId, ops, fires, snoozedAt>>

NextFault ==
  \/ Next
  \/ TickThrow

SpecFault == Init /\ [][NextFault]_vars

----------------------------------------------------------------------------
(* A driver for triggerNotification.  In the program a task is triggered    *)
(* by the tick alone, once per due time; to see what pushAlert and its      *)
(* removal timer do with alerts of one task, the driver calls               *)
(* triggerNotification for any task of the store at any instant, next to    *)
(* the tick, the removals and the clock.  It starts from the view mounted   *)
(* on the stored list.                                                      *)

StoredList == JsonList(<<StoredDone, StoredUntitled, StoredBare>>)

InitPush ==
  LET loaded == sortTasks(readTasks(StoredList))
      eff == MountEffects(loaded, StoredList)
  IN  /\ now = StartOfRun
      /\ mounted = TRUE
      /\ mounts = 1
      /\ tasks = loaded
      /\ activeAlerts = <<>>
      /\ timeouts = {}
      /\ tickDue = StartOfRun + TICK_INTERVAL_MS
      /\ refreshDue = StartOfRun + TICK_INTERVAL_MS
      /\ storage = eff.slot
      /\ hasHydratedRef = eff.ref
      /\ nextId = FirstFreshId
      /\ ops = 0
      /\ fires = InitialFires(StoredList)
      /\ snoozedAt = [i \in Ids(loaded) |-> Null]
      /\ last = [Step("mount", 0) EXCEPT !.writes = eff.writes]

Trigger(task) ==
  /\ mounted
  /\ nextId < FirstFreshId + MaxPushes
  /\ \E perm \in Permissions, audio \in BOOLEAN :
       LET pushed == triggerNotification(task, nextId, now, perm, audio).alerts
       IN  /\ activeAlerts' = activeAlerts \o pushed
           /\ timeouts' = timeouts \cup TimeoutsFor(pushed, now)
           /\ last' = [Step("trigger", task.id) EXCEPT !.pushed = pushed]
  /\ nextId' = nextId + 1
  /\ fires' = Bump(fires, {task.id})
  /\ UNCHANGED <<now, mounted, mounts, tasks, tickDue, storage, hasHydratedRef,
                 ops, snoozedAt, refreshDue>>

NextPush ==
  \/ Refresh
  \/ Tick
  \/ \E tm \in timeouts : AlertExpire(tm)
  \/ Advance
  \/ \E i \in 1..Len(tasks) : Trigger(tasks[i])

SpecPush == InitPush /\ [][NextPush]_vars

----------------------------------------------------------------------------
(* The "Stretch" scenario: the view is mounted on an empty slot, the user    *)
(* adds one task due ten minutes later, and time passes for twelve minutes.  *)
(* The reminder interval runs only while the view is mounted: when the user  *)
(* closes the view and opens it again later, the first tick after the due    *)
(* time comes 15 s after the new mount, whenever that is.                    *)

TenMinutes == 10 * MsPerMinute

ScenarioEnd == StartOfRun + ScenarioTicks * TICK_INTERVAL_MS

InitStretch ==
  LET loaded == sortTasks(readTasks(Absent))
      eff == MountEffects(loaded, Absent)
  IN  /\ now = StartOfRun
      /\ mounted = TRUE
      /\ mounts = 1
      /\ tasks = loaded
      /\ activeAlerts = <<>>
      /\ timeouts = {}
      /\ tickDue = StartOfRun + TICK_INTERVAL_MS
      /\ refreshDue = StartOfRun + TICK_INTERVAL_MS
      /\ storage = eff.slot
      /\ hasHydratedRef = eff.ref
      /\ nextId = FirstFreshId
      /\ ops = 0
      /\ fires = InitialFires(Absent)
      /\ snoozedAt = [i \in Ids(loaded) |-> Null]
      /\ last = [Step("mount", 0) EXCEPT !.writes = eff.writes]

\* add("Stretch", "", T) with T ten minutes from now, on the empty store
AddStretch ==
  /\ tasks = <<>>
  /\ handleAddTask(Submission(Stretch, <<>>, LocalTime(now + TenMinutes)))

\* Time passes, as in Advance, up to the end of the scenario.
Elapse ==
  /\ now < ScenarioEnd
  /\ ~IntervalDue(tickDue)
  /\ ~IntervalDue(refreshDue)
  /\ \A tm \in timeouts : tm.due > now
  /\ now' = now + TICK_INTERVAL_MS
  /\ last' = Step("advance", 0)
  /\ UNCHANGED <<mounted, mounts, tasks, activeAlerts, timeouts, tickDue, storage,
                 hasHydratedRef, nextId, ops, fires, snoozedAt, refreshDue>>

NextStretch ==
  \/ AddStretch
  \/ Refresh
  \/ Tick
  \/ \E tm \in timeouts : AlertExpire(tm)
  \/ Elapse
  \/ Unmount
  \/ Mount

SpecStretch == InitStretch /\ [][NextStretch]_vars

----------------------------------------------------------------------------
(* Loading: the program starts on a slot that holds anything.  The slot is   *)
(* absent, unparseable, no list, or a list of up to MaxStored entries, each *)
(* a record with some of its keys left out or empty, or no object at all.   *)

MaxStored == 2

Shapes ==
  {"full", "bare", "nonotes", "nomark", "noid", "emptyid", "notitle",
   "emptytitle", "notime", "null"}

FullRecord(i) ==
  [id |-> i, title |-> <<"A">>, notes |-> <<"n">>,
   scheduledFor |-> StartOfRun + i * TICK_INTERVAL_MS, completed |-> (i = 1),
   notifiedAt |-> At(StartOfRun - MsPerMinute), createdAt |-> 0]

Omit(obj, keys) == [k \in DOMAIN obj \ keys |-> obj[k]]

StoredRecord(i, shape) ==
  LET full == FullRecord(i)
  IN  CASE shape = "full" -> full
        [] shape = "bare" -> Omit(full, {"notes", "notifiedAt"})
        [] shape = "nonotes" -> Omit(full, {"notes"})
        [] shape = "nomark" -> Omit(full, {"notifiedAt"})
        [] shape = "noid" -> Omit(full, {"id"})
        [] shape = "emptyid" -> [full EXCEPT !.id = 0]
        [] shape = "notitle" -> Omit(full, {"title"})
        [] shape = "emptytitle" -> [full EXCEPT !.title = <<>>]
        [] shape = "notime" -> Omit(full, {"scheduledFor"})
        [] shape = "null" -> Omit(full, DOMAIN full)

StoredLists ==
  UNION {{[i \in 1..n |-> StoredRecord(i, shapes[i])] : shapes \in [1..n -> Shapes]} :
         n \in 0..MaxStored}

LoadSlots == {Absent, Garbage, NotAList} \cup {JsonList(items) : items \in StoredLists}

InitLoad ==
  /\ now = StartOfRun
  /\ mounted = FALSE
  /\ mounts = 0
  /\ tasks = <<>>
  /\ activeAlerts = <<>>
  /\ timeouts = {}
  /\ tickDue = 0
  /\ refreshDue = 0
  /\ storage \in LoadSlots
  /\ hasHydratedRef = FALSE
  /\ nextId = FirstFreshId
  /\ ops = 0
  /\ fires = InitialFires(storage)
  /\ snoozedAt = [i \in Ids(readTasks(storage)) |-> Null]
  /\ last = Step("boot", 0)

NextLoad ==
  \/ Mount
  \/ Unmount

SpecLoad == InitLoad /\ [][NextLoad]_vars

----------------------------------------------------------------------------
(* Properties *)

AlertCount(alerts, id) ==
  Cardinality({i \in 1..Len(alerts) : alerts[i].taskId = id})

FiveMinutes == 5 * 60 * 1000

\* the trigger condition as the specification words it
DueAndArmed(task, t) ==
  /\ task.completed = FALSE
  /\ task.notifiedAt = Null
  /\ task.scheduledFor <= t

Canonical(ts) ==
  \A i, j \in 1..Len(ts) :
    i < j =>
      /\ ~(ts[i].completed /\ ~ts[j].completed)
      /\ ts[i].completed = ts[j].completed => ts[i].scheduledFor <= ts[j].scheduledFor

(* C1: a reminder tick sets notifiedAt of every task that is incomplete, not
   notified and due, and adds exactly one alert for it; a tick adds no alert
   for a task that was already alarmed and has not been snoozed since. *)
C1_TickFiresDueTasksOnce ==
  [][last'.op = "tick" =>
       \A i \in 1..Len(tasks) :
         LET id == tasks[i].id
         IN  /\ DueAndArmed(tasks[i], now) =>
                  /\ id \in Ids(tasks')
                  /\ TaskOf(tasks', id).notifiedAt = At(now)
                  /\ AlertCount(activeAlerts', id) = AlertCount(activeAlerts, id) + 1
             /\ fires[id] > 0 =>
                  AlertCount(activeAlerts', id) = AlertCount(activeAlerts, id)]_vars

\* A tick has just fired one task and passed over another, due and incomplete,
\* that an earlier tick had alarmed.
C1_Witness ==
  /\ last.op = "tick"
  /\ last.fired # <<>>
  /\ \E i \in 1..Len(tasks) :
       /\ ~tasks[i].completed
       /\ tasks[i].scheduledFor <= now
       /\ tasks[i].notifiedAt # Null
       /\ tasks[i].notifiedAt # At(now)
       /\ fires[tasks[i].id] = 1
       /\ AlertCount(activeAlerts, tasks[i].id) = 1

(* C2: a tick triggers a task (changes it or adds an alert for it) if and only
   if the task is incomplete, not notified and due at the tick; a triggered
   task gets both the mark and the alert, and every other task is left as it
   was. *)
C2_TickTriggersExactlyTheEligible ==
  [][last'.op = "tick" =>
       /\ Ids(tasks') = Ids(tasks)
       /\ Len(tasks') = Len(tasks)
       /\ \A i \in 1..Len(tasks) :
            LET t == tasks[i]
                u == TaskOf(tasks', t.id)
                more == AlertCount(activeAlerts', t.id) - AlertCount(activeAlerts, t.id)
                triggered == u # t \/ more # 0
            IN  /\ triggered <=> DueAndArmed(t, now)
                /\ triggered => u.notifiedAt # Null /\ more > 0
                /\ ~triggered => u = t /\ more = 0]_vars

\* A tick has fired a task while the store also held a due task that is
\* completed and one that is not due yet.
C2_Witness ==
  /\ last.op = "tick"
  /\ last.fired # <<>>
  /\ \E i \in 1..Len(tasks) :
       /\ tasks[i].completed
       /\ tasks[i].notifiedAt = Null
       /\ tasks[i].scheduledFor <= now
  /\ \E i \in 1..Len(tasks) :
       /\ ~tasks[i].completed
       /\ tasks[i].notifiedAt = Null
       /\ tasks[i].scheduledFor > now

(* C3: whatever the user and the ticks do, no task is alarmed more than once
   between its creation, or its last snooze, and its next snooze. *)
C3_AtMostOncePerDueTime ==
  \A id \in DOMAIN fires : fires[id] <= 1

\* The stored task 2 was alarmed by an earlier tick, the user then toggled
\* twice (nothing was added, deleted, snoozed or reloaded), and a later tick
\* has passed over it although it is incomplete and due.
C3_Witness ==
  /\ last.op = "tick"
  /\ ops = 2
  /\ mounts = 1
  /\ nextId = FirstFreshId + 1
  /\ Ids(tasks) = {1, 2}
  /\ AlertCount(activeAlerts, 2) = 1
  /\ LET t == TaskOf(tasks, 2)
     IN  /\ ~t.completed
         /\ t.scheduledFor <= now
         /\ t.notifiedAt # Null
         /\ t.notifiedAt # At(now)
         /\ snoozedAt[2] = Null
         /\ fires[2] = 1

(* C4: in the stored task list every incomplete task precedes every completed
   task, and within each group the tasks are in ascending scheduledFor order. *)
C4_CanonicalOrdering ==
  mounted => Canonical(tasks)

(* C5: snooze sets the task's scheduledFor to now + 5 minutes, its notifiedAt
   to null and its completed to false, and changes nothing else in the store;
   while it stays so, a tick before that instant leaves it alone and a tick
   at or after that instant fires it. *)
C5_SnoozeRearmsInFiveMinutes ==
  [][/\ last'.op = "snooze" =>
          LET id == last'.id
              t == TaskOf(tasks, id)
              u == TaskOf(tasks', id)
          IN  /\ u = [t EXCEPT !.scheduledFor = now + FiveMinutes,
                               !.notifiedAt = Null,
                               !.completed = FALSE]
              /\ Len(tasks') = Len(tasks)
              /\ \A i \in 1..Len(tasks) :
                   tasks[i].id # id => TaskOf(tasks', tasks[i].id) = tasks[i]
     /\ last'.op = "tick" =>
          \A i \in 1..Len(tasks) :
            LET t == tasks[i]
            IN  (snoozedAt[t.id] # Null /\ ~t.completed /\ t.notifiedAt = Null) =>
                  IF now < snoozedAt[t.id][1] + FiveMinutes
                  THEN /\ TaskOf(tasks', t.id) = t
                       /\ AlertCount(activeAlerts', t.id) = AlertCount(activeAlerts, t.id)
                  ELSE /\ TaskOf(tasks', t.id).notifiedAt = At(now)
                       /\ AlertCount(activeAlerts', t.id)
                            = AlertCount(activeAlerts, t.id) + 1]_vars

\* A tick has fired a task that had been alarmed, then snoozed five minutes
\* before this tick.
C5_Witness ==
  /\ last.op = "tick"
  /\ \E i \in 1..Len(tasks) :
       /\ snoozedAt[tasks[i].id] # Null
       /\ snoozedAt[tasks[i].id][1] + FiveMinutes = now
       /\ tasks[i].scheduledFor = now
       /\ tasks[i].notifiedAt = At(now)
       /\ tasks[i].createdAt = 0

(* C6: a tick sees the user operation issued just before it: a task snoozed,
   deleted or completed just before the tick is not fired by it, a task added
   just before it is fired if it is due, a reset leaves it nothing to fire;
   and every task the tick fires carries its mark in the same step. *)
C6_MutationsVisibleToTheTick ==
  [][last'.op = "tick" =>
       LET firedNow == Range(last'.fired)
       IN  /\ last.op = "snooze" =>
                /\ last.id \notin firedNow
                /\ TaskOf(tasks', last.id).notifiedAt = Null
                /\ TaskOf(tasks', last.id).scheduledFor = now + FiveMinutes
           /\ last.op = "delete" =>
                /\ last.id \notin firedNow
                /\ last.id \notin Ids(tasks')
           /\ (last.op = "toggle" /\ TaskOf(tasks, last.id).completed) =>
                /\ last.id \notin firedNow
                /\ TaskOf(tasks', last.id) = TaskOf(tasks, last.id)
           /\ last.op = "reset" =>
                /\ firedNow = {}
                /\ tasks' = <<>>
           /\ (last.op = "add" /\ last.id # 0) =>
                /\ last.id \in Ids(tasks')
                /\ last.id \in firedNow <=> TaskOf(tasks, last.id).scheduledFor <= now
           /\ \A id \in firedNow :
                /\ id \in Ids(tasks')
                /\ TaskOf(tasks', id).notifiedAt = At(now)]_vars

\* A tick has run right after the user snoozed, at this very instant, a task
\* that an earlier tick had alarmed, and has not fired it.
C6_Witness ==
  /\ last.op = "tick"
  /\ \E i \in 1..Len(tasks) :
       /\ snoozedAt[tasks[i].id] = At(now)
       /\ tasks[i].notifiedAt = Null
       /\ tasks[i].scheduledFor = now + FiveMinutes
       /\ AlertCount(activeAlerts, tasks[i].id) = 1

(* C7: after a tick in which an alert channel threw, every task that was
   eligible at the tick has its notifiedAt set all the same. *)
C7_ChannelFailureKeepsTheMark ==
  last.op = "tick" =>
    \A id \in last.eligible :
      /\ id \in Ids(tasks)
      /\ TaskOf(tasks, id).notifiedAt # Null

(* C8: when the native notification is unsupported or not granted, or no audio
   context is to be had, a tick still marks every eligible task and pushes
   its alert, and each channel is used exactly when it is available. *)
C8_ChannelsAreIndependent ==
  (/\ last.op = "tick"
   /\ last.eligible # {}
   /\ (last.perm # "granted" \/ ~last.audio)) =>
    /\ \A id \in last.eligible :
         /\ id \in Ids(tasks)
         /\ TaskOf(tasks, id).notifiedAt = At(now)
         /\ \E k \in 1..Len(activeAlerts) :
              /\ activeAlerts[k].taskId = id
              /\ activeAlerts[k].triggeredAt = now
    /\ last.native = (IF last.perm = "granted" THEN last.eligible ELSE {})
    /\ last.tones = (IF last.audio THEN last.eligible ELSE {})

\* A tick has fired a task on a host without notifications and without audio.
C8_Witness ==
  /\ last.op = "tick"
  /\ last.eligible # {}
  /\ last.perm = "unsupported"
  /\ ~last.audio
  /\ last.native = {}
  /\ last.tones = {}
  /\ Len(last.pushed) = Cardinality(last.eligible)

(* C9: mounting the view, which loads the store from the slot, writes nothing
   to the slot. *)
C9_HydrationDoesNotWrite ==
  last.op = "mount" => last.writes = 0

(* C10: after every committed mutation of the store (add, toggle, delete,
   snooze, template, firing tick) the slot has been written once and holds
   the whole store: loading it gives the same tasks in the same order. *)
C10_SlotHoldsTheStore ==
  (/\ mounted
   /\ last.op \in {"add", "toggle", "delete", "snooze", "template", "tick"}
   /\ last.op = "add" => last.id # 0
   /\ last.op = "tick" => last.fired # <<>>) =>
    /\ last.writes = 1
    /\ storage.kind = "list"
    /\ storage.items = tasks
    /\ readTasks(storage) = tasks

\* The user has toggled a task, the store is out of canonical order, and the
\* slot holds it in that very order.
C10_Witness ==
  /\ last.op = "toggle"
  /\ ~Canonical(tasks)
  /\ Len(tasks) >= 2
  /\ storage.items = tasks

(* C11: resetting the day empties the store and leaves a slot from which
   readTasks gives the empty list; and from then on, through the passing of
   time, ticks, alert removals, teardown and a new start, readTasks of the
   slot stays empty until the user adds a task or applies a template. *)
C11_ResetErasesTheStore ==
  [][/\ last'.op = "reset" =>
          /\ tasks' = <<>>
          /\ readTasks(storage') = <<>>
     /\ (/\ readTasks(storage) = <<>>
         /\ ~(last'.op = "add" /\ last'.id # 0)
         /\ last'.op # "template") =>
          /\ readTasks(storage') = <<>>
          /\ last'.op = "mount" => tasks' = <<>>]_vars

\* The user added a task to the store and then reset the day: the store is
\* empty and so is what readTasks gives.
C11_Witness ==
  /\ last.op = "reset"
  /\ nextId > FirstFreshId
  /\ ops = 2
  /\ tasks = <<>>
  /\ readTasks(storage) = <<>>

(* C12: once a reset has settled, the slot holds no value at all (it is
   absent, not the text of an empty list). *)
C12_ResetLeavesNoValue ==
  last.op = "reset" => storage = Absent

AlertKeys == {"taskId", "message", "triggeredAt"}

(* C13: in the mounted view every alert stays in the list from its push until
   45 seconds later, with its removal pending all that time whatever the user
   does to the tasks, and no alert is in the list later than that; the removal
   of an alert leaves none with its id; the slot never holds an alert, and a
   newly mounted view shows none. *)
C13_AlertsLast45Seconds ==
  /\ mounted =>
       /\ \A k \in 1..Len(activeAlerts) :
            LET a == activeAlerts[k]
            IN  /\ a.triggeredAt <= now
                /\ now <= a.triggeredAt + ALERT_DURATION_MS
                /\ [id |-> a.id, due |-> a.triggeredAt + ALERT_DURATION_MS] \in timeouts
       /\ \A tm \in timeouts :
            /\ now <= tm.due
            /\ \E k \in 1..Len(activeAlerts) :
                 /\ activeAlerts[k].id = tm.id
                 /\ activeAlerts[k].triggeredAt = tm.due - ALERT_DURATION_MS
       /\ last.op = "expire" =>
            \A k \in 1..Len(activeAlerts) : activeAlerts[k].id # last.id
       /\ last.op = "mount" => activeAlerts = <<>>
  /\ storage.kind = "list" =>
       \A i \in 1..Len(storage.items) : DOMAIN storage.items[i] \cap AlertKeys = {}

\* An alert is in the list 45 seconds after its push, its removal due now,
\* while its task is no longer in the store: the user deleted it or reset the
\* day after the alarm.
C13_Witness ==
  /\ mounted
  /\ mounts = 1
  /\ ops >= 1
  /\ \E k \in 1..Len(activeAlerts) :
       /\ activeAlerts[k].taskId \notin Ids(tasks)
       /\ now = activeAlerts[k].triggeredAt + ALERT_DURATION_MS
       /\ [id |-> activeAlerts[k].id, due |-> now] \in timeouts

AlertIds(alerts) == {alerts[k].id : k \in 1..Len(alerts)}

(* C14: a step that pushes alerts (a tick, or a call of triggerNotification
   for any task, alarmed already or not) keeps every alert of the list in its
   place and appends new ones with fresh ids; the removal of an alert takes
   out the one alert with that id and keeps all others in their order, those
   of the same task included; no other step changes the list. *)
C14_AlertsAreKeptApart ==
  [][/\ last'.op \in {"tick", "trigger"} =>
          /\ activeAlerts' = activeAlerts \o last'.pushed
          /\ AlertIds(last'.pushed) \cap AlertIds(activeAlerts) = {}
          /\ Cardinality(AlertIds(activeAlerts')) = Len(activeAlerts')
     /\ last'.op = "expire" =>
          /\ Len(activeAlerts') = Len(activeAlerts) - 1
          /\ \E k \in 1..Len(activeAlerts) :
               /\ activeAlerts[k].id = last'.id
               /\ activeAlerts' =
                    SubSeq(activeAlerts, 1, k - 1)
                      \o SubSeq(activeAlerts, k + 1, Len(activeAlerts))
     /\ last'.op \notin {"tick", "trigger", "expire"} =>
          activeAlerts' = activeAlerts]_vars

\* The removal of one alert has just left in the list two alerts of one task,
\* pushed at different instants.
C14_Witness ==
  /\ last.op = "expire"
  /\ \E j, k \in 1..Len(activeAlerts) :
       /\ j < k
       /\ activeAlerts[j].taskId = activeAlerts[k].taskId
       /\ activeAlerts[j].id # activeAlerts[k].id
       /\ activeAlerts[j].id > last.id
       /\ activeAlerts[j].triggeredAt < activeAlerts[k].triggeredAt

\* the fields of a task that only its creation sets
SameIdentity(t, u) ==
  /\ u.id = t.id
  /\ u.title = t.title
  /\ u.notes = t.notes
  /\ u.createdAt = t.createdAt

(* C15: between two states of the mounted store a task's notifiedAt goes from
   null to a timestamp only in a tick that fires this task, goes back to null
   only in a snooze of this task, and never changes from one timestamp to
   another; add, toggle, delete and template leave notifiedAt, id, title,
   notes and createdAt of every task that stays in the store as they were;
   when the view is torn down the slot holds the store, and a mount takes
   each kept record of the slot into the store with these fields as stored
   (absent notes and notifiedAt defaulted). *)
C15_OnlyTickAndSnoozeTouchTheMark ==
  [][/\ tasks' # tasks =>
        \A i \in 1..Len(tasks), j \in 1..Len(tasks') :
          tasks'[j].id = tasks[i].id =>
            LET t == tasks[i]
                u == tasks'[j]
            IN  /\ (t.notifiedAt = Null /\ u.notifiedAt # Null) =>
                     /\ last'.op = "tick"
                     /\ t.id \in last'.eligible
                /\ (t.notifiedAt # Null /\ u.notifiedAt = Null) =>
                     /\ last'.op = "snooze"
                     /\ last'.id = t.id
                /\ (t.notifiedAt # Null /\ u.notifiedAt # Null) =>
                     u.notifiedAt = t.notifiedAt
                /\ last'.op \in {"add", "toggle", "delete", "template"} =>
                     /\ u.notifiedAt = t.notifiedAt
                     /\ SameIdentity(t, u)
     /\ last'.op \in {"add", "toggle", "template"} => Ids(tasks) \subseteq Ids(tasks')
     /\ last'.op = "delete" => Ids(tasks') = Ids(tasks) \ {last'.id}
     /\ last'.op = "unmount" =>
          /\ storage' = storage
          /\ storage.kind = "list"
          /\ storage.items = tasks
     /\ (last'.op = "mount" /\ storage.kind = "list") =>
          \A i \in 1..Len(storage.items) :
            LET obj == storage.items[i]
            IN  Keep(obj) =>
                  /\ obj.id \in Ids(tasks')
                  /\ LET u == TaskOf(tasks', obj.id)
                     IN  /\ u.id = obj.id
                         /\ u.title = obj.title
                         /\ u.createdAt = obj.createdAt
                         /\ u.notes = (IF Has(obj, "notes") THEN obj.notes ELSE <<>>)
                         /\ u.notifiedAt =
                              (IF Has(obj, "notifiedAt") THEN obj.notifiedAt ELSE Null)]_vars

\* The view has been mounted a second time on a slot written by the first:
\* the store holds an incomplete task with the mark a tick gave it before.
C15_Witness ==
  /\ last.op = "mount"
  /\ mounts = 2
  /\ \E i \in 1..Len(tasks) :
       /\ ~tasks[i].completed
       /\ tasks[i].notifiedAt # Null
       /\ tasks[i].notifiedAt[1] > StartOfRun
       /\ fires[tasks[i].id] = 1

OneMinute == MsPerMinute

(* C16: on the empty store, adding "Stretch" without notes for T, ten minutes
   ahead, gives a store of exactly one task, incomplete and not notified; the
   tick that fires it (the first one at or after T, be it at T or at T + 1
   minute) sets its notifiedAt and leaves exactly one alert, whose message is
   "Stretch"; after any tick at T + 1 minute the task is marked; and once the
   removal 45 seconds after the firing tick has run, and at any later
   instant, the alert list is empty. *)
C16_StretchScenario ==
  /\ (last.op = "add" /\ last.id # 0) =>
       /\ Len(tasks) = 1
       /\ tasks[1].title = Stretch
       /\ tasks[1].notes = <<>>
       /\ tasks[1].scheduledFor = now + TenMinutes
       /\ tasks[1].completed = FALSE
       /\ tasks[1].notifiedAt = Null
       /\ activeAlerts = <<>>
  /\ (last.op = "tick" /\ last.fired # <<>>) =>
       /\ Len(tasks) = 1
       /\ tasks[1].scheduledFor <= now
       /\ tasks[1].notifiedAt = At(now)
       /\ Len(activeAlerts) = 1
       /\ activeAlerts[1].message = Stretch
       /\ activeAlerts[1].taskId = tasks[1].id
  /\ \A i \in 1..Len(tasks) :
       /\ (last.op = "tick" /\ now >= tasks[i].scheduledFor + OneMinute) =>
            tasks[i].notifiedAt # Null
       /\ (/\ tasks[i].notifiedAt # Null
           /\ \/ now > tasks[i].notifiedAt[1] + ALERT_DURATION_MS
              \/ now = tasks[i].notifiedAt[1] + ALERT_DURATION_MS /\ last.op = "expire") =>
            activeAlerts = <<>>

\* The whole scenario has run: the store holds the one task "Stretch", marked
\* by a tick at T + 1 minute, and the removal 45 seconds after that tick has
\* just emptied the alert list.
C16_Witness ==
  /\ last.op = "expire"
  /\ activeAlerts = <<>>
  /\ Len(tasks) = 1
  /\ tasks[1].title = Stretch
  /\ tasks[1].completed = FALSE
  /\ tasks[1].createdAt = tasks[1].scheduledFor - TenMinutes
  /\ tasks[1].notifiedAt = At(tasks[1].scheduledFor + OneMinute)
  /\ now = tasks[1].scheduledFor + OneMinute + ALERT_DURATION_MS

\* a title that is empty or consists of blanks only
BlankTitle(title) == \A i \in 1..Len(title) : title[i] = Space

(* C17: submitting the form with a blank title, or with a time that is empty
   or is no valid instant, changes neither the store nor the slot nor the
   alert list, writes nothing and leaves the view running; any other
   submission adds exactly one task, incomplete and not notified, with the
   submitted instant, and keeps every task the store held. *)
C17_InvalidAddIsANoOp ==
  [][\A sub \in Submissions :
       handleAddTask(sub) =>
         IF BlankTitle(sub.title) \/ sub.time.kind \in {"empty", "invalid"}
         THEN /\ tasks' = tasks
              /\ storage' = storage
              /\ activeAlerts' = activeAlerts
              /\ nextId' = nextId
              /\ mounted'
              /\ last'.writes = 0
              /\ last'.threw = "none"
         ELSE /\ Len(tasks') = Len(tasks) + 1
              /\ Ids(tasks) \subseteq Ids(tasks')
              /\ \A i \in 1..Len(tasks) : TaskOf(tasks', tasks[i].id) = tasks[i]
              /\ \E id \in Ids(tasks') \ Ids(tasks) :
                   LET u == TaskOf(tasks', id)
                   IN  /\ u.completed = FALSE
                       /\ u.notifiedAt = Null
                       /\ u.scheduledFor = sub.time.ms
                       /\ ~BlankTitle(u.title)
              /\ mounted']_vars

\* A submission has just been turned down while the store, and the slot with
\* it, held tasks.
C17_Witness ==
  /\ last.op = "add"
  /\ last.id = 0
  /\ last.writes = 0
  /\ tasks # <<>>
  /\ storage.kind = "list"
  /\ storage.items = tasks
  /\ mounted

(* C18: toggling a task changes its completed flag to the opposite value and
   nothing else of it (notifiedAt and scheduledFor included), adds and
   removes no task and leaves every other task as it was; toggling the
   resulting store once more gives the task its former completed value. *)
C18_ToggleFlipsOnlyCompleted ==
  [][last'.op = "toggle" =>
       LET id == last'.id
           t == TaskOf(tasks, id)
           u == TaskOf(tasks', id)
       IN  /\ id \in Ids(tasks)
           /\ Len(tasks') = Len(tasks)
           /\ Ids(tasks') = Ids(tasks)
           /\ u.completed = ~t.completed
           /\ u.notifiedAt = t.notifiedAt
           /\ u.scheduledFor = t.scheduledFor
           /\ u = [t EXCEPT !.completed = u.completed]
           /\ \A i \in 1..Len(tasks) :
                tasks[i].id # id => TaskOf(tasks', tasks[i].id) = tasks[i]
           /\ TaskOf(Toggled(tasks', id), id).completed = t.completed]_vars

\* The user has toggled the stored task 2 twice in a row: the store holds
\* both stored tasks exactly as they were loaded.
C18_Witness ==
  /\ last.op = "toggle"
  /\ last.id = 2
  /\ mounted
  /\ mounts = 1
  /\ ops = 2
  /\ nextId = FirstFreshId
  /\ Ids(tasks) = {1, 2}
  /\ TaskOf(tasks, 1) = WithDefaults(StoredDone)
  /\ TaskOf(tasks, 2) = WithDefaults(StoredBare)

\* x is the next instant after t whose time of day is hour:minute
IsNextOccurrence(x, t, hour, minute) ==
  /\ x > t
  /\ x <= t + DayMs
  /\ x % DayMs = (hour * 60 + minute) * MsPerMinute

(* C19: applying a template adds exactly one new task per blueprint, with the
   blueprint's title and notes, incomplete, not notified, and due at the next
   instant after now whose time of day is the blueprint's hour:minute (today
   if that is still ahead, tomorrow if it is now or past); every task the
   store held is still there with all its fields. *)
C19_TemplateAppendsItsBlueprints ==
  [][last'.op = "template" =>
       LET bp == templates[last'.id]
           new == Ids(tasks') \ Ids(tasks)
       IN  /\ Len(tasks') = Len(tasks) + Len(bp)
           /\ Cardinality(Ids(tasks')) = Len(tasks')
           /\ Cardinality(new) = Len(bp)
           /\ \A i \in 1..Len(tasks) :
                /\ tasks[i].id \in Ids(tasks')
                /\ TaskOf(tasks', tasks[i].id) = tasks[i]
           /\ \A j \in 1..Len(bp) :
                \E id \in new :
                  LET u == TaskOf(tasks', id)
                  IN  /\ u.title = bp[j].title
                      /\ u.notes = bp[j].notes
                      /\ u.completed = FALSE
                      /\ u.notifiedAt = Null
                      /\ IsNextOccurrence(u.scheduledFor, now, bp[j].hour, bp[j].minute)]_vars

SevenTwenty == (7 * 60 + 20) * MsPerMinute

\* The first template has been applied at 07:20:00 to a store of two tasks:
\* its 07:00 and 07:20 blueprints are due tomorrow, its 07:45 blueprint today.
C19_Witness ==
  /\ last.op = "template"
  /\ last.id = 1
  /\ now = SevenTwenty
  /\ Len(tasks) = 5
  /\ {1, 2} \subseteq Ids(tasks)
  /\ \E i, j, k \in 1..Len(tasks) :
       /\ tasks[i].title = <<"W">>
       /\ tasks[i].scheduledFor = DayMs + 7 * 60 * MsPerMinute
       /\ tasks[j].title = <<"P">>
       /\ tasks[j].scheduledFor = DayMs + SevenTwenty
       /\ tasks[k].title = <<"H">>
       /\ tasks[k].scheduledFor = (7 * 60 + 45) * MsPerMinute

(* C20: loading what persistTasks wrote for the store gives the store back:
   the same tasks with the same field values in the same order, where loading
   is what the program does at its start, sortTasks(readTasks()). *)
C20_LoadOfPersistIsTheStore ==
  mounted => sortTasks(readTasks(persistTasks(tasks))) = tasks

TaskKeys == {"id", "title", "notes", "scheduledFor", "completed", "notifiedAt", "createdAt"}

\* the record lacks the field, or holds an empty value in it
Lacks(obj, key) ==
  \/ key \notin DOMAIN obj
  \/ key = "id" /\ obj[key] = 0
  \/ key = "title" /\ obj[key] = <<>>

Complete(obj) == ~Lacks(obj, "id") /\ ~Lacks(obj, "title") /\ ~Lacks(obj, "scheduledFor")

(* C21: a mount on a slot that is absent, unparseable or no list gives the
   empty store and a running view; a mount on a list gives a store that holds
   one task for every entry that has id, title and scheduledFor (present and
   not empty) and none for any other entry; each such task has all seven
   fields, those of the entry as stored, notes the empty text when the entry
   has none, and notifiedAt null when the entry has none. *)
C21_LoadDropsAndDefaults ==
  [][last'.op = "mount" =>
       /\ mounted'
       /\ last'.threw = "none"
       /\ storage.kind # "list" => tasks' = <<>>
       /\ storage.kind = "list" =>
            LET items == storage.items
                kept == {i \in 1..Len(items) : Complete(items[i])}
            IN  /\ Len(tasks') = Cardinality(kept)
                /\ Cardinality(Ids(tasks')) = Len(tasks')
                /\ \A i \in kept :
                     \E j \in 1..Len(tasks') :
                       LET obj == items[i]
                           u == tasks'[j]
                       IN  /\ DOMAIN u = TaskKeys
                           /\ \A k \in DOMAIN obj : u[k] = obj[k]
                           /\ "notes" \notin DOMAIN obj => u.notes = <<>>
                           /\ "notifiedAt" \notin DOMAIN obj => u.notifiedAt = Null]_vars

\* The view runs on a store of one task, loaded from a list of two entries:
\* the first had no scheduledFor, the second neither notes nor notifiedAt.
C21_Witness ==
  /\ last.op = "mount"
  /\ mounted
  /\ mounts = 1
  /\ Len(tasks) = 1
  /\ tasks[1].id = 2
  /\ tasks[1].notes = <<>>
  /\ tasks[1].notifiedAt = Null
  /\ tasks[1].title = <<"A">>
  /\ DOMAIN fires = {2}

(* C22: while the view is not mounted neither interval exists, and the last
   thing that ran is neither a reminder tick nor a display-refresh tick:
   after the teardown no callback of either interval runs, however much time
   passes. *)
C22_TeardownCancelsBothIntervals ==
  ~mounted =>
    /\ tickDue = 0
    /\ refreshDue = 0
    /\ last.op \notin {"tick", "refresh"}

\* The view was mounted and torn down, and time has passed over an instant at
\* which both intervals would have been due.
C22_Witness ==
  /\ ~mounted
  /\ mounts = 1
  /\ ops >= 1
  /\ last.op = "advance"
  /\ now >= StartOfRun + 2 * TICK_INTERVAL_MS

(* C23: a reminder tick that triggers one or more tasks leaves the whole store
   in canonical order and causes exactly one write, which holds the store
   with the whole batch marked; a reminder tick that finds no eligible task
   leaves the store as it was (same tasks, same order), writes nothing and
   adds no alert. *)
C23_OneSortAndOneWritePerTick ==
  [][last'.op = "tick" =>
       IF \E i \in 1..Len(tasks) : DueAndArmed(tasks[i], now)
       THEN /\ Canonical(tasks')
            /\ last'.writes = 1
            /\ storage' = persistTasks(tasks')
            /\ \A i \in 1..Len(tasks) :
                 DueAndArmed(tasks[i], now) =>
                   \E j \in 1..Len(tasks') :
                     /\ tasks'[j].id = tasks[i].id
                     /\ tasks'[j].notifiedAt = At(now)
       ELSE /\ tasks' = tasks
            /\ storage' = storage
            /\ last'.writes = 0
            /\ last'.pushed = <<>>
            /\ activeAlerts' = activeAlerts
            /\ timeouts' = timeouts]_vars

\* A tick has triggered two tasks at once and written the store once.
C23_Witness ==
  /\ last.op = "tick"
  /\ Len(last.fired) >= 2
  /\ Len(last.pushed) = Len(last.fired)
  /\ last.writes = 1
  /\ storage = persistTasks(tasks)
  /\ \A k \in 1..Len(last.fired) :
       \E i \in 1..Len(tasks) :
         tasks[i].id = last.fired[k] /\ tasks[i].notifiedAt = At(now)

\* the stored ids and every id createId() can return in a run of SpecLive
TaskIds == 1..(FirstFreshId + LiveOps * Len(templates[1]) - 1)

\* task id is in the store of the mounted view, incomplete, un-notified, due
AwaitsTrigger(id) ==
  /\ mounted
  /\ \E i \in 1..Len(tasks) : tasks[i].id = id /\ DueAndArmed(tasks[i], now)

\* a reminder tick has just set the mark of task id and emitted its alert
TriggeredNow(id) ==
  /\ mounted
  /\ last.op = "tick"
  /\ id \in last.eligible
  /\ \E i \in 1..Len(tasks) : tasks[i].id = id /\ tasks[i].notifiedAt = At(now)
  /\ \E k \in 1..Len(activeAlerts) :
       activeAlerts[k].taskId = id /\ activeAlerts[k].triggeredAt = now

\* task id was completed, snoozed or deleted, or the view was torn down
Withdrawn(id) ==
  \/ ~mounted
  \/ \A i \in 1..Len(tasks) : tasks[i].id # id
  \/ \E i \in 1..Len(tasks) :
       /\ tasks[i].id = id
       /\ tasks[i].completed \/ tasks[i].scheduledFor > now

(* C24: whenever a task in the store of the mounted view is incomplete,
   un-notified and due, a reminder tick is scheduled no later than one tick
   interval from now, and eventually that task is triggered by a tick (its
   notifiedAt set to the tick instant and an alert for it emitted), unless it
   is completed, snoozed or deleted first or the view is torn down. *)
C24_DueTasksAreEventuallyTriggered ==
  \A id \in TaskIds :
    [](AwaitsTrigger(id) =>
         /\ tickDue # 0
         /\ tickDue <= now + TICK_INTERVAL_MS
         /\ <>(TriggeredNow(id) \/ Withdrawn(id)))

\* A task added by the user has come due while the view stayed mounted and
\* the tick at that instant has triggered it.
C24_Witness ==
  /\ mounted
  /\ mounts = 1
  /\ last.op = "tick"
  /\ \E id \in TaskIds :
       /\ id >= FirstFreshId
       /\ TriggeredNow(id)
       /\ \E i \in 1..Len(tasks) :
            tasks[i].id = id /\ tasks[i].scheduledFor > LastUserInstant

(* C25: for a task that is un-notified and whose scheduled time has arrived,
   however long ago: while it is completed a reminder tick leaves it as it is
   and emits no alert for it; toggling it back leaves it incomplete, still
   un-notified and still due; and a reminder tick that finds it incomplete
   sets its notifiedAt to the tick instant and emits exactly one alert for
   it. *)
C25_CompletedTasksWaitForTheToggle ==
  [][last'.op \in {"tick", "toggle"} =>
       \A i \in 1..Len(tasks) :
         LET t == tasks[i]
             more == AlertCount(activeAlerts', t.id) - AlertCount(activeAlerts, t.id)
         IN  (t.notifiedAt = Null /\ t.scheduledFor <= now) =>
               /\ (last'.op = "tick" /\ t.completed) =>
                    /\ \E j \in 1..Len(tasks') : tasks'[j] = t
                    /\ more = 0
               /\ (last'.op = "toggle" /\ last'.id = t.id /\ t.completed) =>
                    \E j \in 1..Len(tasks') :
                      tasks'[j] = [t EXCEPT !.completed = FALSE]
               /\ (last'.op = "tick" /\ ~t.completed) =>
                    /\ \E j \in 1..Len(tasks') :
                         tasks'[j] = [t EXCEPT !.notifiedAt = At(now)]
                    /\ more = 1]_vars

\* The stored task 2 was in the mounted store all along, never snoozed; a
\* tick has triggered it only now, after its scheduled time: it was completed
\* when its time came, a tick passed over it, and it was toggled back since.
C25_Witness ==
  /\ mounted
  /\ mounts = 1
  /\ ops = 2
  /\ last.op = "tick"
  /\ 2 \in last.eligible
  /\ snoozedAt[2] = Null
  /\ fires[2] = 1
  /\ \E i \in 1..Len(tasks) :
       /\ tasks[i].id = 2
       /\ ~tasks[i].completed
       /\ tasks[i].notifiedAt = At(now)
       /\ tasks[i].scheduledFor < now

(* C26: when the view is mounted again after a teardown, every task that was
   alarmed before and not snoozed since is loaded with its notifiedAt set;
   and in a session after a restart a reminder tick leaves every task whose
   notifiedAt is set as it is and emits no alert for it (only a snooze clears
   the mark, C15). *)
C26_RestartDoesNotTriggerAgain ==
  [][/\ (last'.op = "mount" /\ mounts >= 1) =>
          \A id \in DOMAIN fires :
            fires[id] >= 1 =>
              \E j \in 1..Len(tasks') :
                tasks'[j].id = id /\ tasks'[j].notifiedAt # Null
     /\ (last'.op = "tick" /\ mounts >= 2) =>
          \A i \in 1..Len(tasks) :
            tasks[i].notifiedAt # Null =>
              /\ \E j \in 1..Len(tasks') : tasks'[j] = tasks[i]
              /\ AlertCount(activeAlerts', tasks[i].id)
                   = AlertCount(activeAlerts, tasks[i].id)]_vars

\* The stored task 2, which the slot held without a mark, was alarmed less
\* than 45 s ago, yet no alert for it is showing: the alarm was in the
\* session before the restart.  A tick of the new session has just passed
\* over it, incomplete and due.
C26_Witness ==
  /\ mounted
  /\ mounts = 2
  /\ last.op = "tick"
  /\ last.fired = <<>>
  /\ 2 \in DOMAIN fires
  /\ fires[2] = 1
  /\ AlertCount(activeAlerts, 2) = 0
  /\ \E i \in 1..Len(tasks) :
       /\ tasks[i].id = 2
       /\ ~tasks[i].completed
       /\ tasks[i].scheduledFor <= now
       /\ tasks[i].notifiedAt # Null
       /\ tasks[i].notifiedAt[1] < now
       /\ now - tasks[i].notifiedAt[1] < ALERT_DURATION_MS

====
